---- MODULE Spec2Model ----
(***************************************************************************)
(* captools: CSV seed-data validation against a compiled CDS model.       *)
(* Strings are sequences of one-character strings, so that toLowerCase,   *)
(* includes, split and replace are computed character by character.       *)
(***************************************************************************)
EXTENDS Integers, Sequences, FiniteSets, TLC

VARIABLES
    csn,          \* the compiled CDS model returned by cds.load("*")
    traceLevel,   \* the trace level handed to the tool
    disk,         \* the data folders and the CSV files below them
    pc,           \* position of the validatecsv run
    diskFiles,    \* the files gathered by the running validation
    entities,     \* the sorted entity index of the running validation
    entityLookup, \* lowercase entity name -> entity name
    idx,          \* index of the running loop
    fErrors,      \* errors counted by validateCsvFilenames
    fWarnings,    \* warnings counted by validateCsvFilenames
    hErrors,      \* errors counted by validateCsvHeaders
    hWarnings,    \* warnings counted by validateCsvHeaders
    findings,     \* the header results, one per reconciled file
    out,          \* the records written to the console
    file,         \* the file handed to a single validateHeaderRow call
    hpc,          \* position of a single validateHeaderRow call
    result,       \* what that call returned
    previous,     \* what an earlier validatecsv run on the same inputs produced
    args,         \* process.argv.slice(2)
    argi,         \* index of the argument loop
    command,      \* the command named on the command line, <<>> for null
    showHelp,     \* --help was seen
    cliPc,        \* position of the command-line program
    exitCode,     \* the exit status of the process
    invoked,      \* the tool that was called and the trace level handed to it
    toolErrors,   \* the error count the called validation ended with
    outputRoot,   \* the directory captools-inserts and its entries
    runs,         \* the generateInserts runs so far, one record each
    line,         \* the line handed to parseCSVLine
    delimiter,    \* the delimiter handed to parseCSVLine
    fields,       \* what parseCSVLine returned
    csvText,      \* the text of the CSV file handed to createPostgresInserts
    inserts,      \* what createPostgresInserts built
    ppc           \* position of the single parseCSVLine or createPostgresInserts call

runVars == <<disk, pc, diskFiles, entities, entityLookup, idx,
             fErrors, fWarnings, hErrors, hWarnings, findings, out>>

headerVars == <<file, hpc, result>>

cliVars == <<args, argi, command, showHelp, cliPc, exitCode, invoked, toolErrors>>

insertVars == <<outputRoot, runs>>

parseVars == <<line, delimiter, fields, csvText, inserts, ppc>>

toolVars == <<previous, cliVars, insertVars, parseVars>>

vars == <<csn, traceLevel, runVars, headerVars, toolVars>>

NoRun ==
    [ran |-> FALSE, pc |-> "fn_start", fErrors |-> 0, fWarnings |-> 0,
     hErrors |-> 0, hWarnings |-> 0, findings |-> <<>>, out |-> <<>>]

\* The state of everything outside the validation run and the single
\* header reconciliation.
TwiceIdle == previous = NoRun

NotInvoked == [called |-> FALSE, tool |-> "none", traceLevel |-> 1]

CliIdle ==
    /\ args = <<>>
    /\ argi = 0
    /\ command = <<>>
    /\ showHelp = FALSE
    /\ cliPc = "idle"
    /\ exitCode = 0
    /\ invoked = NotInvoked
    /\ toolErrors = 0

InsertsIdle ==
    /\ outputRoot = [exists |-> FALSE, entries |-> {}]
    /\ runs = <<>>

NoInserts == [sql |-> FALSE, tableName |-> <<>>, headers |-> <<>>, rows |-> <<>>]

ParseIdle ==
    /\ line = <<>>
    /\ delimiter = ","
    /\ fields = <<>>
    /\ csvText = <<>>
    /\ inserts = NoInserts
    /\ ppc = "idle"

ToolsIdle ==
    /\ TwiceIdle
    /\ CliIdle
    /\ InsertsIdle
    /\ ParseIdle

(***************************************************************************)
(* Bounds of the explored inputs.                                          *)
(***************************************************************************)
MaxFields == 2
MaxHeaders == 2
MaxEntities == 2
MaxFiles == 2

TraceLevels == {0, 1, 2}

(***************************************************************************)
(* JavaScript string primitives.                                           *)
(***************************************************************************)
UpperChars == <<"A","B","C","D","E","F","G","H","I","J","K","L","M",
                "N","O","P","Q","R","S","T","U","V","W","X","Y","Z">>
LowerChars == <<"a","b","c","d","e","f","g","h","i","j","k","l","m",
                "n","o","p","q","r","s","t","u","v","w","x","y","z">>

ToLowerTable ==
    [c \in {UpperChars[i] : i \in 1..26} |->
        LowerChars[CHOOSE i \in 1..26 : UpperChars[i] = c]]

toLowerChar(c) == IF c \in DOMAIN ToLowerTable THEN ToLowerTable[c] ELSE c

toLowerCase(s) == [i \in 1..Len(s) |-> toLowerChar(s[i])]

includesChar(s, c) == \E i \in 1..Len(s) : s[i] = c

includes(arr, x) == \E i \in 1..Len(arr) : arr[i] = x

RECURSIVE splitFrom(_, _, _, _)
splitFrom(s, d, i, current) ==
    IF i > Len(s) THEN <<current>>
    ELSE IF s[i] = d THEN <<current>> \o splitFrom(s, d, i + 1, <<>>)
    ELSE splitFrom(s, d, i + 1, Append(current, s[i]))

split(s, d) == splitFrom(s, d, 1, <<>>)

IsSpace(c) == c \in {" ", "\t", "\r"}

RECURSIVE trimStart(_)
trimStart(s) ==
    IF Len(s) > 0 /\ IsSpace(s[1]) THEN trimStart(Tail(s)) ELSE s

RECURSIVE trimEnd(_)
trimEnd(s) ==
    IF Len(s) > 0 /\ IsSpace(s[Len(s)]) THEN trimEnd(SubSeq(s, 1, Len(s) - 1)) ELSE s

trim(s) == trimEnd(trimStart(s))

\* h.replace(/^"|"$/g, "")
stripQuotes(s) ==
    LET a == IF Len(s) > 0 /\ s[1] = "\"" THEN Tail(s) ELSE s
    IN  IF Len(a) > 0 /\ a[Len(a)] = "\"" THEN SubSeq(a, 1, Len(a) - 1) ELSE a

RECURSIVE join(_, _)
join(arr, sep) ==
    IF Len(arr) = 0 THEN <<>>
    ELSE IF Len(arr) = 1 THEN arr[1]
    ELSE arr[1] \o sep \o join(Tail(arr), sep)

RECURSIVE flatten(_)
flatten(seqs) ==
    IF Len(seqs) = 0 THEN <<>> ELSE seqs[1] \o flatten(Tail(seqs))

Range(arr) == {arr[i] : i \in 1..Len(arr)}

(***************************************************************************)
(* Names used by the explored models and files.                            *)
(***************************************************************************)
S_ID == <<"I","D">>
S_id == <<"i","d">>
S_status == <<"s","t","a","t","u","s">>
S_order_id == <<"o","r","d","e","r","_","i","d">>
S_customer == <<"c","u","s","t","o","m","e","r">>
S_order == <<"o","r","d","e","r">>
S_customer_ID == <<"c","u","s","t","o","m","e","r","_","I","D">>
S_sold_to == <<"s","o","l","d","_","t","o">>
S_sold_to_ID == <<"s","o","l","d","_","t","o","_","I","D">>
S_createdAt == <<"c","r","e","a","t","e","d","A","t">>
S_name == <<"n","a","m","e">>
S_quotedStatus == <<" ","\"","s","t","a","t","u","s","\"">>

S_Order == <<"s","a","l","e","s",".","O","r","d","e","r">>
S_Customer == <<"s","a","l","e","s",".","C","u","s","t","o","m","e","r">>

(***************************************************************************)
(* CSN elements: the attributes validateHeaderRow reads from an element.   *)
(* cardMax "none" stands for an element without a cardinality object.      *)
(***************************************************************************)
Scalar(n, k) ==
    [name |-> n, type |-> "cds.String", key |-> k, virtual |-> FALSE,
     skip |-> FALSE, cardMax |-> "none", target |-> <<>>]

Assoc(n, ty, max, tgt) ==
    [name |-> n, type |-> ty, key |-> FALSE, virtual |-> FALSE,
     skip |-> FALSE, cardMax |-> max, target |-> tgt]

ElementPool ==
    { Scalar(S_ID, TRUE),
      Scalar(S_status, FALSE),
      Scalar(S_order_id, TRUE),
      Scalar(S_createdAt, FALSE),
      Assoc(S_customer, "cds.Association", "none", S_Customer),
      Assoc(S_order, "cds.Association", "*", S_Customer),
      Assoc(S_sold_to, "cds.Composition", "none", S_Customer) }

\* Object keys are unique: no two elements of a definition share a name.
UniqueNames(els) ==
    \A i, j \in 1..Len(els) : els[i].name = els[j].name => i = j

RECURSIVE SeqsUpTo(_, _)
SeqsUpTo(S, n) ==
    IF n = 0 THEN {<<>>}
    ELSE LET shorter == SeqsUpTo(S, n - 1)
         IN  shorter \cup {Append(q, x) : q \in shorter, x \in S}

ElementSeqs == {els \in SeqsUpTo(ElementPool, MaxFields) : UniqueNames(els)}

EntityDef(els) == [kind |-> "entity", skip |-> FALSE, elements |-> els]

CustomerDef == EntityDef(<<Scalar(S_ID, TRUE), Scalar(S_name, FALSE)>>)

HeaderModels ==
    { [definitions |-> (S_Order :> EntityDef(els)) @@ (S_Customer :> CustomerDef)]
        : els \in ElementSeqs }

HeaderCells ==
    { S_ID, S_id, S_status, S_order_id, S_customer_ID, S_customer,
      S_sold_to_ID, S_createdAt }

\* A file on disk: unreadable, or readable with its text.
HeaderFiles ==
    { [readable |-> TRUE, content |-> join(cells, <<",">>) \o <<"\n", "1">>]
        : cells \in SeqsUpTo(HeaderCells, MaxHeaders) }
    \cup
    { [readable |-> TRUE, content |-> join(<<S_ID, S_quotedStatus>>, <<";">>)],
      [readable |-> FALSE, content |-> <<>>] }

(***************************************************************************)
(* getCsvHeaders                                                           *)
(***************************************************************************)
\* content.split(/\r?\n/)[0]
firstLineOf(content) ==
    LET l == split(content, "\n")[1]
    IN  IF Len(l) > 0 /\ l[Len(l)] = "\r" THEN SubSeq(l, 1, Len(l) - 1) ELSE l

getCsvHeaders(f) ==
    IF ~f.readable THEN <<>>
    ELSE LET firstLine == firstLineOf(f.content)
             cells == IF includesChar(firstLine, ";")
                      THEN split(firstLine, ";")
                      ELSE split(firstLine, ",")
         IN  IF Len(firstLine) = 0 THEN <<>>
             ELSE [i \in 1..Len(cells) |-> stripQuotes(trim(cells[i]))]

(***************************************************************************)
(* validateHeaderRow                                                       *)
(***************************************************************************)
managedFields ==
    << <<"c","r","e","a","t","e","d","A","t">>,
       <<"c","r","e","a","t","e","d","B","y">>,
       <<"m","o","d","i","f","i","e","d","A","t">>,
       <<"m","o","d","i","f","i","e","d","B","y">> >>

HasDefinition(model, n) == n \in DOMAIN model.definitions

HasElement(def, n) == \E i \in 1..Len(def.elements) : def.elements[i].name = n

ElementOf(def, n) ==
    def.elements[CHOOSE i \in 1..Len(def.elements) : def.elements[i].name = n]

\* Variant: every field of the target counts as a key.
targetKeys_EveryField(target) ==
    [i \in 1..Len(target.elements) |-> target.elements[i].name]

\* Object.keys(target.elements).filter((k) => target.elements[k].key)
targetKeys(target) ==
    LET kept == SelectSeq(target.elements, LAMBDA e : e.key)
    IN  [i \in 1..Len(kept) |-> kept[i].name]

IsAssocType(el) == el.type = "cds.Association" \/ el.type = "cds.Composition"

\* Variant: a to-one composition is treated like a to-one association.
expectedOfElement_CompositionAsAssociation(model, el) ==
    IF el.virtual \/ el.skip THEN <<>>
    ELSE IF includes(managedFields, el.name) THEN <<>>
    ELSE IF IsAssocType(el)
         THEN IF el.cardMax = "*" THEN <<>>
              ELSE IF HasDefinition(model, el.target)
                   THEN LET keys == targetKeys(model.definitions[el.target])
                        IN  [i \in 1..Len(keys) |-> el.name \o <<"_">> \o keys[i]]
                   ELSE <<>>
         ELSE <<el.name>>

\* The columns one element pushes onto `expected`.
expectedOfElement(model, el) ==
    IF el.virtual \/ el.skip THEN <<>>
    ELSE IF includes(managedFields, el.name) THEN <<>>
    ELSE IF IsAssocType(el)
         THEN IF el.cardMax = "*" THEN <<>>
              ELSE IF el.type = "cds.Composition" THEN <<>>
              ELSE IF HasDefinition(model, el.target)
                   THEN LET keys == targetKeys(model.definitions[el.target])
                        IN  [i \in 1..Len(keys) |-> el.name \o <<"_">> \o keys[i]]
                   ELSE <<>>
         ELSE <<el.name>>

expectedColumns(model, def) ==
    flatten([i \in 1..Len(def.elements) |-> expectedOfElement(model, def.elements[i])])

missingColumns(expected, headers) ==
    SelectSeq(expected, LAMBDA e : ~includes(headers, e))

\* Variant: a missing association key column counts as a key column.
isMissingKey_AssociationKeysAreKeys(def, e) ==
    IF includesChar(e, "_") THEN TRUE
    ELSE HasElement(def, e) /\ ElementOf(def, e).key

isMissingKey(def, e) ==
    IF includesChar(e, "_") THEN FALSE
    ELSE HasElement(def, e) /\ ElementOf(def, e).key

missingKeyColumns(def, missing) ==
    SelectSeq(missing, LAMBDA e : isMissingKey(def, e))

missingNonKeyColumns(missing, missingKeys) ==
    SelectSeq(missing, LAMBDA e : ~includes(missingKeys, e))

\* Variant: the foreign-key pattern test without the cardinality condition.
isForeignKeyHeader_AnyCardinality(def, h) ==
    LET baseName == split(h, "_")[1]
    IN  /\ HasElement(def, baseName)
        /\ IsAssocType(ElementOf(def, baseName))

\* The foreign-key pattern test on a header containing "_".
isForeignKeyHeader(def, h) ==
    LET baseName == split(h, "_")[1]
    IN  /\ HasElement(def, baseName)
        /\ IsAssocType(ElementOf(def, baseName))
        /\ ElementOf(def, baseName).cardMax # "*"

matchesPropertyIgnoringCase(def, h) ==
    LET lowerH == toLowerCase(h)
    IN  \E i \in 1..Len(def.elements) : toLowerCase(def.elements[i].name) = lowerH

\* Variant: the extra-column filter without the managed-field exemption.
isExtra_ManagedNotSkipped(def, expected, h) ==
    IF includes(expected, h) THEN FALSE
    ELSE IF includesChar(h, "_") /\ isForeignKeyHeader(def, h) THEN FALSE
    ELSE IF matchesPropertyIgnoringCase(def, h) THEN FALSE
    ELSE TRUE

isExtra(def, expected, h) ==
    IF includes(managedFields, h) THEN FALSE
    ELSE IF includes(expected, h) THEN FALSE
    ELSE IF includesChar(h, "_") /\ isForeignKeyHeader(def, h) THEN FALSE
    ELSE IF matchesPropertyIgnoringCase(def, h) THEN FALSE
    ELSE TRUE

extraColumns(def, expected, headers) ==
    SelectSeq(headers, LAMBDA h : isExtra(def, expected, h))

\* hasErrors is set by the extra-columns block and by the missing-keys block.
headerHasErrors_OnlyExtra(extra, missingKeys) == Len(extra) > 0

headerHasErrors(extra, missingKeys) == Len(extra) > 0 \/ Len(missingKeys) > 0

\* hasWarnings is set inside the block guarded by the trace level.
headerHasWarnings(missingNonKeys, level) == Len(missingNonKeys) > 0 /\ level >= 1

NoResult ==
    [defined |-> FALSE, hasErrors |-> FALSE, hasWarnings |-> FALSE,
     headers |-> <<>>, expected |-> <<>>, missing |-> <<>>, missingKeys |-> <<>>,
     missingNonKeys |-> <<>>, extra |-> <<>>, out |-> <<>>]

validateHeaderRow(f, entityName, model, level) ==
    IF ~HasDefinition(model, entityName) THEN NoResult
    ELSE
    LET def == model.definitions[entityName]
        headers == getCsvHeaders(f)
        expected == expectedColumns(model, def)
        missing == missingColumns(expected, headers)
        missingKeys == missingKeyColumns(def, missing)
        missingNonKeys == missingNonKeyColumns(missing, missingKeys)
        extra == extraColumns(def, expected, headers)
        errExtra == Len(extra) > 0
        errKeys == Len(missingKeys) > 0
        hasErrors == headerHasErrors(extra, missingKeys)
        hasWarnings == headerHasWarnings(missingNonKeys, level)
        printed == (IF errExtra THEN <<"HEADER ERROR: Extra Columns">> ELSE <<>>)
               \o (IF errKeys THEN <<"HEADER ERROR: Missing Key Columns">> ELSE <<>>)
               \o (IF hasWarnings THEN <<"HEADER WARNING">> ELSE <<>>)
               \o (IF ~hasErrors /\ ~hasWarnings /\ level >= 2
                   THEN <<"HEADER OK">> ELSE <<>>)
    IN  [defined |-> TRUE, hasErrors |-> hasErrors, hasWarnings |-> hasWarnings,
         headers |-> headers, expected |-> expected, missing |-> missing,
         missingKeys |-> missingKeys, missingNonKeys |-> missingNonKeys,
         extra |-> extra, out |-> printed]

(***************************************************************************)
(* Header reconciliation of one file against one entity.                   *)
(***************************************************************************)
RunIdle ==
    /\ disk = <<>>
    /\ pc = "idle"
    /\ diskFiles = <<>>
    /\ entities = <<>>
    /\ entityLookup = <<>>
    /\ idx = 0
    /\ fErrors = 0
    /\ fWarnings = 0
    /\ hErrors = 0
    /\ hWarnings = 0
    /\ findings = <<>>
    /\ out = <<>>

InitHeader ==
    /\ csn \in HeaderModels
    /\ file \in HeaderFiles
    /\ traceLevel = 1
    /\ hpc = "start"
    /\ result = NoResult
    /\ RunIdle
    /\ ToolsIdle

ReconcileHeader ==
    /\ hpc = "start"
    /\ \E level \in TraceLevels :
          /\ traceLevel' = level
          /\ result' = validateHeaderRow(file, S_Order, csn, level)
    /\ hpc' = "done"
    /\ UNCHANGED <<csn, file, runVars, toolVars>>

NextHeader == ReconcileHeader

SpecHeader == InitHeader /\ [][NextHeader]_vars

Def == csn.definitions[S_Order]

(***************************************************************************)
(* Expected-column derivation over every shape of field the element loop   *)
(* tells apart: one call of validateHeaderRow for the entity sales.Order.   *)
(***************************************************************************)
S_total == <<"t","o","t","a","l">>
S_items == <<"i","t","e","m","s">>
S_customer_name == <<"c","u","s","t","o","m","e","r","_","n","a","m","e">>
S_Line == <<"s","a","l","e","s",".","L","i","n","e">>
S_Missing == <<"s","a","l","e","s",".","M","i","s","s","i","n","g">>

DeriveElementPool ==
    { Scalar(S_ID, TRUE),
      [Scalar(S_total, FALSE) EXCEPT !.virtual = TRUE],
      [Scalar(S_total, FALSE) EXCEPT !.skip = TRUE],
      Scalar(S_createdAt, FALSE),
      Scalar(S_customer_ID, FALSE),
      Assoc(S_items, "cds.Composition", "*", S_Customer),
      Assoc(S_sold_to, "cds.Composition", "none", S_Customer),
      Assoc(S_order, "cds.Association", "*", S_Customer),
      Assoc(S_customer, "cds.Association", "none", S_Customer),
      Assoc(S_customer, "cds.Association", "1", S_Line),
      Assoc(S_customer, "cds.Association", "none", S_Missing) }

\* A target with two key fields.
LineDef == EntityDef(<<Scalar(S_ID, TRUE), Scalar(S_name, TRUE), Scalar(S_status, FALSE)>>)

DeriveModels ==
    { [definitions |-> (S_Order :> EntityDef(els)) @@ (S_Customer :> CustomerDef)
                         @@ (S_Line :> LineDef)]
        : els \in {q \in SeqsUpTo(DeriveElementPool, MaxFields) : UniqueNames(q)} }

DeriveCells == {S_ID, S_customer_ID, S_total}

DeriveFiles ==
    { [readable |-> TRUE, content |-> join(cells, <<",">>)]
        : cells \in SeqsUpTo(DeriveCells, MaxHeaders) }

InitDerive ==
    /\ csn \in DeriveModels
    /\ file \in DeriveFiles
    /\ traceLevel = 1
    /\ hpc = "start"
    /\ result = NoResult
    /\ RunIdle
    /\ ToolsIdle

SpecDerive == InitDerive /\ [][NextHeader]_vars

(***************************************************************************)
(* String order of Array.prototype.sort: UTF-16 code units.                *)
(***************************************************************************)
CharOrder ==
    <<"-", ".">> \o UpperChars \o <<"_">> \o LowerChars

CodeTable ==
    [c \in {CharOrder[i] : i \in 1..Len(CharOrder)} |->
        CHOOSE i \in 1..Len(CharOrder) : CharOrder[i] = c]

RECURSIVE StrLess(_, _)
StrLess(a, b) ==
    IF Len(a) = 0 THEN Len(b) > 0
    ELSE IF Len(b) = 0 THEN FALSE
    ELSE IF a[1] = b[1] THEN StrLess(Tail(a), Tail(b))
    ELSE CodeTable[a[1]] < CodeTable[b[1]]

StartsWith(s, prefix) ==
    Len(s) >= Len(prefix) /\ SubSeq(s, 1, Len(prefix)) = prefix

endsWith(s, suffix) ==
    Len(s) >= Len(suffix) /\ SubSeq(s, Len(s) - Len(suffix) + 1, Len(s)) = suffix

replaceAll(s, from, to) == [i \in 1..Len(s) |-> IF s[i] = from THEN to ELSE s[i]]

S_dotCsv == <<".","c","s","v">>
S_sapCommon == <<"s","a","p",".","c","o","m","m","o","n">>

\* name.replace(/\.csv$/i, "")
stripCsvExtension(name) ==
    IF endsWith(toLowerCase(name), S_dotCsv)
    THEN SubSeq(name, 1, Len(name) - 4)
    ELSE name

\* name.replace(/\./g, "-") + ".csv"
strictNameOf(entityName) == replaceAll(entityName, ".", "-") \o S_dotCsv

RECURSIVE SetToSeq(_)
SetToSeq(S) ==
    IF S = {} THEN <<>>
    ELSE LET x == CHOOSE y \in S : TRUE
         IN  <<x>> \o SetToSeq(S \ {x})

ObjectKeys(obj) == SetToSeq(DOMAIN obj)

(***************************************************************************)
(* The explored models and disks of a validatecsv run.                     *)
(***************************************************************************)
S_order_lc == <<"s","a","l","e","s",".","o","r","d","e","r">>
S_Temp == <<"s","a","l","e","s",".","T","e","m","p">>
S_Code == <<"s","a","l","e","s",".","C","o","d","e">>
S_sapCommonLang == S_sapCommon \o <<".","L","a","n","g">>

F_exact == <<"s","a","l","e","s","-","O","r","d","e","r",".","c","s","v">>
F_lower == <<"s","a","l","e","s","-","o","r","d","e","r",".","c","s","v">>
F_upperExt == <<"s","a","l","e","s","-","O","r","d","e","r",".","C","S","V">>
F_noNamespace == <<"O","r","d","e","r",".","c","s","v">>
F_dotted == <<"s","a","l","e","s",".","O","r","d","e","r",".","c","s","v">>

DefinitionPool ==
    { <<S_Order, EntityDef(<<Scalar(S_ID, TRUE), Scalar(S_status, FALSE)>>)>>,
      <<S_order_lc, EntityDef(<<Scalar(S_ID, TRUE)>>)>>,
      <<S_sapCommonLang, EntityDef(<<Scalar(S_ID, TRUE)>>)>>,
      <<S_Temp, [EntityDef(<<Scalar(S_ID, TRUE)>>) EXCEPT !.skip = TRUE]>>,
      <<S_Code, [EntityDef(<<>>) EXCEPT !.kind = "type"]>> }

RunModels ==
    { [definitions |-> [n \in {d[1] : d \in ds} |-> (CHOOSE d \in ds : d[1] = n)[2]]]
        : ds \in {x \in SUBSET DefinitionPool : Cardinality(x) <= MaxEntities} }

TextFile(name, text) == [name |-> name, readable |-> TRUE, content |-> text]

FilePool ==
    { TextFile(F_exact, join(<<S_ID, S_status>>, <<",">>) \o <<"\n", "1", ",", "a">>),
      TextFile(F_exact, S_ID \o <<"\n", "1">>),
      TextFile(F_exact, join(<<S_ID, S_status, S_name>>, <<",">>)),
      [name |-> F_exact, readable |-> FALSE, content |-> <<>>],
      TextFile(F_lower, S_ID),
      TextFile(F_upperExt, S_ID),
      TextFile(F_noNamespace, S_ID),
      TextFile(F_dotted, S_ID) }

dataFolders == <<"db/data", "db/csv", "db/src/csv">>

NoFolder == [exists |-> FALSE, listable |-> FALSE, files |-> <<>>]

\* a path that exists but that fs.readdirSync cannot list: the call throws
UnlistableFolder == [exists |-> TRUE, listable |-> FALSE, files |-> <<>>]

\* readdirSync lists a folder in name order; names are unique in a folder.
Listing(fs) == SortSeq(SetToSeq(fs), LAMBDA a, b : StrLess(a.name, b.name))

Folder(fs) ==
    IF fs = {} THEN NoFolder
    ELSE [exists |-> TRUE, listable |-> TRUE, files |-> Listing(fs)]

UniqueFileNames(fs) == \A a, b \in fs : a.name = b.name => a = b

Disks ==
    { [f \in {dataFolders[i] : i \in 1..3} |->
          IF f = "db/data" THEN Folder(a)
          ELSE IF f = "db/csv" THEN Folder(b)
          ELSE NoFolder]
        : <<a, b>> \in
            { ab \in (SUBSET FilePool) \X (SUBSET FilePool) :
                /\ Cardinality(ab[1]) + Cardinality(ab[2]) <= MaxFiles
                /\ UniqueFileNames(ab[1])
                /\ UniqueFileNames(ab[2]) } }
    \cup
    { [f \in {dataFolders[i] : i \in 1..3} |->
          [exists |-> TRUE, listable |-> TRUE, files |-> <<>>]] }
    \cup
    { [f \in {dataFolders[i] : i \in 1..3} |->
          IF f = "db/data" THEN Folder({x})
          ELSE IF f = "db/csv" THEN UnlistableFolder
          ELSE NoFolder]
        : x \in {y \in FilePool : y.name = F_exact} }

(***************************************************************************)
(* Shared steps of validateCsvFilenames and validateCsvHeaders.            *)
(***************************************************************************)
\* fs.readdirSync is called outside any try block: when it throws, the
\* exception leaves the validation function.
gatherThrows(d) ==
    \E i \in 1..Len(dataFolders) :
        d[dataFolders[i]].exists /\ ~d[dataFolders[i]].listable

\* fs.readdirSync(folder).filter(...).forEach(push) for each data folder
gatherFolder(d, folder) ==
    IF d[folder].exists
    THEN LET csvs == SelectSeq(d[folder].files,
                               LAMBDA f : endsWith(toLowerCase(f.name), S_dotCsv))
         IN  [i \in 1..Len(csvs) |->
                [actualName |-> csvs[i].name,
                 lowerName |-> toLowerCase(csvs[i].name),
                 folder |-> folder]]
    ELSE <<>>

gatherDiskFiles(d) ==
    flatten([i \in 1..Len(dataFolders) |-> gatherFolder(d, dataFolders[i])])

\* Variant: skip-annotated entities stay in the index.
isIndexedEntity_SkipIncluded(model, name) ==
    /\ model.definitions[name].kind = "entity"
    /\ ~StartsWith(name, S_sapCommon)

isIndexedEntity(model, name) ==
    /\ model.definitions[name].kind = "entity"
    /\ ~StartsWith(name, S_sapCommon)
    /\ ~model.definitions[name].skip

entitiesOf(model) ==
    SortSeq(SelectSeq(ObjectKeys(model.definitions),
                      LAMBDA name : isIndexedEntity(model, name)),
            StrLess)

\* entities.forEach((name) => entityLookup[name.toLowerCase()] = name)
RECURSIVE buildEntityLookup(_, _)
buildEntityLookup(names, n) ==
    IF n = 0 THEN <<>>
    ELSE (toLowerCase(names[n]) :> names[n]) @@ buildEntityLookup(names, n - 1)

\* path.join(folder, actualName) read from disk
FileAt(d, diskFile) ==
    LET fs == d[diskFile.folder].files
    IN  fs[CHOOSE i \in 1..Len(fs) : fs[i].name = diskFile.actualName]

Rec(kind, subject) == [kind |-> kind, subject |-> subject]

(***************************************************************************)
(* validateCsvFilenames                                                    *)
(***************************************************************************)
entityNameFromFile(diskFile) ==
    replaceAll(stripCsvExtension(diskFile.actualName), "-", ".")

\* Variant: the entity lookup comes before the test for a dot.
classifyFile_LookupFirst(diskFile, lookup) ==
    LET fileBaseName == stripCsvExtension(diskFile.actualName)
        fromFile == entityNameFromFile(diskFile)
        entityNameLower == toLowerCase(fromFile)
    IN  IF entityNameLower \notin DOMAIN lookup
        THEN IF includesChar(fileBaseName, ".") THEN "function-like" ELSE "not-found"
        ELSE LET correctEntityName == lookup[entityNameLower]
             IN  IF diskFile.actualName = strictNameOf(correctEntityName) THEN "exact"
                 ELSE IF fromFile # correctEntityName THEN "entity-case"
                 ELSE "filename-case"

\* The branch of the file loop a discovered file takes.
classifyFile(diskFile, lookup) ==
    LET fileBaseName == stripCsvExtension(diskFile.actualName)
        fromFile == entityNameFromFile(diskFile)
        entityNameLower == toLowerCase(fromFile)
    IN  IF includesChar(fileBaseName, ".") THEN "function-like"
        ELSE IF entityNameLower \notin DOMAIN lookup THEN "not-found"
        ELSE LET correctEntityName == lookup[entityNameLower]
             IN  IF diskFile.actualName = strictNameOf(correctEntityName) THEN "exact"
                 ELSE IF fromFile # correctEntityName THEN "entity-case"
                 ELSE "filename-case"

\* Variant: a file without an entity is not counted.
errorIncrement_NotFoundNotCounted(kind) == IF kind = "entity-case" THEN 1 ELSE 0

errorIncrement(kind) == IF kind \in {"not-found", "entity-case"} THEN 1 ELSE 0

\* Variant: a wrongly cased extension is not counted.
warningIncrement_FilenameCaseNotCounted(kind) == IF kind = "function-like" THEN 1 ELSE 0

warningIncrement(kind) == IF kind \in {"function-like", "filename-case"} THEN 1 ELSE 0

\* Variant: the note for an exact filename is printed from trace level 1 on.
filenameRecords_OkFromLevelOne(kind, diskFile, level) ==
    IF kind = "function-like"
    THEN IF level >= 1 THEN <<Rec("FUNCTION/ACTION CSV", diskFile.actualName)>> ELSE <<>>
    ELSE IF kind = "not-found" THEN <<Rec("ENTITY NOT FOUND", diskFile.actualName)>>
    ELSE IF kind = "exact"
    THEN IF level >= 1 THEN <<Rec("FILENAME OK", diskFile.actualName)>> ELSE <<>>
    ELSE IF kind = "entity-case" THEN <<Rec("ENTITY CASE ERROR", diskFile.actualName)>>
    ELSE IF level >= 1 THEN <<Rec("CASE MISMATCH", diskFile.actualName)>> ELSE <<>>

\* What the file loop prints for a file at a trace level.
filenameRecords(kind, diskFile, level) ==
    IF kind = "function-like"
    THEN IF level >= 1 THEN <<Rec("FUNCTION/ACTION CSV", diskFile.actualName)>> ELSE <<>>
    ELSE IF kind = "not-found" THEN <<Rec("ENTITY NOT FOUND", diskFile.actualName)>>
    ELSE IF kind = "exact"
    THEN IF level >= 2 THEN <<Rec("FILENAME OK", diskFile.actualName)>> ELSE <<>>
    ELSE IF kind = "entity-case" THEN <<Rec("ENTITY CASE ERROR", diskFile.actualName)>>
    ELSE IF level >= 1 THEN <<Rec("CASE MISMATCH", diskFile.actualName)>> ELSE <<>>

\* Variant: the counts of an earlier call are carried into the next one.
FilenamesStart_CountsKept ==
    /\ pc = "fn_start"
    /\ LET gathered == gatherDiskFiles(disk)
       IN  /\ diskFiles' = IF gatherThrows(disk) THEN diskFiles ELSE gathered
           /\ IF gatherThrows(disk)
              THEN /\ pc' = "crashed"
                   /\ UNCHANGED <<entities, entityLookup, idx, out>>
              ELSE IF Len(gathered) = 0
              THEN /\ out' = Append(out, Rec("No CSV files found", <<>>))
                   /\ pc' = "hd_start"
                   /\ UNCHANGED <<entities, entityLookup, idx>>
              ELSE /\ entities' = entitiesOf(csn)
                   /\ entityLookup' = buildEntityLookup(entitiesOf(csn), Len(entitiesOf(csn)))
                   /\ idx' = 1
                   /\ pc' = "fn_files"
                   /\ out' = out
    /\ fErrors' = fErrors
    /\ fWarnings' = fWarnings
    /\ UNCHANGED <<csn, traceLevel, disk, hErrors, hWarnings, findings, headerVars, toolVars>>

FilenamesStart ==
    /\ pc = "fn_start"
    /\ LET gathered == gatherDiskFiles(disk)
       IN  /\ diskFiles' = IF gatherThrows(disk) THEN diskFiles ELSE gathered
           /\ IF gatherThrows(disk)
              THEN /\ pc' = "crashed"
                   /\ UNCHANGED <<entities, entityLookup, idx, out>>
              ELSE IF Len(gathered) = 0
              THEN /\ out' = Append(out, Rec("No CSV files found", <<>>))
                   /\ pc' = "hd_start"
                   /\ UNCHANGED <<entities, entityLookup, idx>>
              ELSE /\ entities' = entitiesOf(csn)
                   /\ entityLookup' = buildEntityLookup(entitiesOf(csn), Len(entitiesOf(csn)))
                   /\ idx' = 1
                   /\ pc' = "fn_files"
                   /\ out' = out
    /\ fErrors' = IF gatherThrows(disk) THEN fErrors ELSE 0
    /\ fWarnings' = IF gatherThrows(disk) THEN fWarnings ELSE 0
    /\ UNCHANGED <<csn, traceLevel, disk, hErrors, hWarnings, findings, headerVars, toolVars>>

FilenamesCheckFile ==
    /\ pc = "fn_files"
    /\ idx <= Len(diskFiles)
    /\ LET diskFile == diskFiles[idx]
           kind == classifyFile(diskFile, entityLookup)
       IN  /\ fErrors' = fErrors + errorIncrement(kind)
           /\ fWarnings' = fWarnings + warningIncrement(kind)
           /\ out' = out \o filenameRecords(kind, diskFile, traceLevel)
    /\ IF idx = Len(diskFiles)
       THEN pc' = "fn_entities" /\ idx' = 1
       ELSE pc' = pc /\ idx' = idx + 1
    /\ UNCHANGED <<csn, traceLevel, disk, diskFiles, entities, entityLookup,
                   hErrors, hWarnings, findings, headerVars, toolVars>>

\* diskFiles.some((f) => f.actualName === strictName)
hasFileFor(files, entityName) ==
    \E i \in 1..Len(files) : files[i].actualName = strictNameOf(entityName)

\* Variant: the missing-file note is printed from trace level 1 on.
noCsvRecords_FromLevelOne(hasFile, entityName, level) ==
    IF ~hasFile /\ level >= 1 THEN <<Rec("NO CSV", entityName)>> ELSE <<>>

\* What the entity loop prints for an entity at a trace level.
noCsvRecords(hasFile, entityName, level) ==
    IF ~hasFile /\ level >= 2 THEN <<Rec("NO CSV", entityName)>> ELSE <<>>

FilenamesCheckEntity ==
    /\ pc = "fn_entities"
    /\ idx <= Len(entities)
    /\ LET entityName == entities[idx]
       IN  out' = out \o noCsvRecords(hasFileFor(diskFiles, entityName),
                                      entityName, traceLevel)
    /\ idx' = idx + 1
    /\ UNCHANGED <<csn, traceLevel, disk, pc, diskFiles, entities, entityLookup,
                   fErrors, fWarnings, hErrors, hWarnings, findings, headerVars, toolVars>>

FilenamesSummary ==
    /\ pc = "fn_entities"
    /\ idx > Len(entities)
    /\ out' = Append(out, IF fErrors > 0 \/ fWarnings > 0
                          THEN Rec("Findings", <<fErrors, fWarnings>>)
                          ELSE Rec("Perfect match", <<>>))
    /\ pc' = "hd_start"
    /\ UNCHANGED <<csn, traceLevel, disk, diskFiles, entities, entityLookup, idx,
                   fErrors, fWarnings, hErrors, hWarnings, findings, headerVars, toolVars>>

(***************************************************************************)
(* validateCsvHeaders                                                      *)
(***************************************************************************)
HeadersStart ==
    /\ pc = "hd_start"
    /\ LET gathered == gatherDiskFiles(disk)
       IN  /\ diskFiles' = IF gatherThrows(disk) THEN diskFiles ELSE gathered
           /\ IF gatherThrows(disk)
              THEN /\ pc' = "crashed"
                   /\ UNCHANGED <<entities, idx, out>>
              ELSE IF Len(gathered) = 0
              THEN /\ out' = Append(out, Rec("No CSV files found", <<>>))
                   /\ pc' = "done"
                   /\ UNCHANGED <<entities, idx>>
              ELSE /\ entities' = entitiesOf(csn)
                   /\ idx' = 1
                   /\ pc' = "hd_entities"
                   /\ out' = out
    /\ hErrors' = IF gatherThrows(disk) THEN hErrors ELSE 0
    /\ hWarnings' = IF gatherThrows(disk) THEN hWarnings ELSE 0
    /\ UNCHANGED <<csn, traceLevel, disk, entityLookup, fErrors, fWarnings,
                   findings, headerVars, toolVars>>

\* diskFiles.find((f) => f.actualName === strictName)
HasExactMatch(files, strictName) ==
    \E i \in 1..Len(files) : files[i].actualName = strictName

exactMatchOf(files, strictName) ==
    files[CHOOSE i \in 1..Len(files) :
            /\ files[i].actualName = strictName
            /\ \A j \in 1..(i - 1) : files[j].actualName # strictName]

HeadersCheckEntity ==
    /\ pc = "hd_entities"
    /\ idx <= Len(entities)
    /\ LET name == entities[idx]
           strictName == strictNameOf(name)
       IN  IF HasExactMatch(diskFiles, strictName)
           THEN LET exactMatch == exactMatchOf(diskFiles, strictName)
                    res == validateHeaderRow(FileAt(disk, exactMatch), name, csn, traceLevel)
                IN  /\ hErrors' = IF res.hasErrors THEN hErrors + 1 ELSE hErrors
                    /\ hWarnings' = IF res.hasWarnings THEN hWarnings + 1 ELSE hWarnings
                    /\ findings' = Append(findings,
                                          [entity |-> name, file |-> exactMatch, result |-> res])
                    /\ out' = out \o [i \in 1..Len(res.out) |-> Rec(res.out[i], name)]
           ELSE UNCHANGED <<hErrors, hWarnings, findings, out>>
    /\ idx' = idx + 1
    /\ UNCHANGED <<csn, traceLevel, disk, pc, diskFiles, entities, entityLookup,
                   fErrors, fWarnings, headerVars, toolVars>>

\* Variant: the success message depends on the error count alone.
headersSummaryRecord_ErrorsOnly(errors, warnings) ==
    IF errors > 0 THEN Rec("Findings", <<errors, warnings>>) ELSE Rec("Perfect", <<>>)

\* The line printed after the entity loop of validateCsvHeaders.
headersSummaryRecord(errors, warnings) ==
    IF errors > 0 \/ warnings > 0
    THEN Rec("Findings", <<errors, warnings>>)
    ELSE Rec("Perfect", <<>>)

HeadersSummary ==
    /\ pc = "hd_entities"
    /\ idx > Len(entities)
    /\ out' = Append(out, headersSummaryRecord(hErrors, hWarnings))
    /\ pc' = "done"
    /\ UNCHANGED <<csn, traceLevel, disk, diskFiles, entities, entityLookup, idx,
                   fErrors, fWarnings, hErrors, hWarnings, findings, headerVars, toolVars>>

(***************************************************************************)
(* validateCsvs: filename validation, then header validation.              *)
(***************************************************************************)
Init ==
    /\ csn \in RunModels
    /\ disk \in Disks
    /\ traceLevel \in TraceLevels
    /\ pc = "fn_start"
    /\ diskFiles = <<>>
    /\ entities = <<>>
    /\ entityLookup = <<>>
    /\ idx = 0
    /\ fErrors = 0
    /\ fWarnings = 0
    /\ hErrors = 0
    /\ hWarnings = 0
    /\ findings = <<>>
    /\ out = <<>>
    /\ file = [readable |-> FALSE, content |-> <<>>]
    /\ hpc = "idle"
    /\ result = NoResult
    /\ ToolsIdle

Next ==
    \/ FilenamesStart
    \/ FilenamesCheckFile
    \/ FilenamesCheckEntity
    \/ FilenamesSummary
    \/ HeadersStart
    \/ HeadersCheckEntity
    \/ HeadersSummary

Spec == Init /\ [][Next]_vars

(***************************************************************************)
(* validateCsvs called a second time on the same model and the same files. *)
(***************************************************************************)
RunAgain ==
    /\ pc \in {"done", "crashed"}
    /\ ~previous.ran
    /\ previous' = [ran |-> TRUE, pc |-> pc, fErrors |-> fErrors, fWarnings |-> fWarnings,
                    hErrors |-> hErrors, hWarnings |-> hWarnings,
                    findings |-> findings, out |-> out]
    /\ pc' = "fn_start"
    /\ out' = <<>>
    /\ findings' = <<>>
    /\ UNCHANGED <<csn, traceLevel, disk, diskFiles, entities, entityLookup, idx,
                   fErrors, fWarnings, hErrors, hWarnings, headerVars, cliVars, insertVars,
                   parseVars>>

NextTwice == Next \/ RunAgain

SpecTwice == Init /\ [][NextTwice]_vars

(***************************************************************************)
(* The command-line program: argument parsing and command dispatch.        *)
(***************************************************************************)
MaxArgs == 3

T_tracelevel == <<"-","-","t","r","a","c","e","l","e","v","e","l">>
T_help == <<"-","-","h","e","l","p">>
T_validatecsv == <<"v","a","l","i","d","a","t","e","c","s","v">>
T_validatecsv_filenames == <<"v","a","l","i","d","a","t","e","c","s","v","-","f","i","l","e","n","a","m","e","s">>
T_validatecsv_headers == <<"v","a","l","i","d","a","t","e","c","s","v","-","h","e","a","d","e","r","s">>
T_check_deploy_config == <<"c","h","e","c","k","-","d","e","p","l","o","y","-","c","o","n","f","i","g">>

ArgPool ==
    { T_tracelevel, T_help, T_validatecsv, T_validatecsv_filenames,
      T_validatecsv_headers, T_check_deploy_config,
      <<"0">>, <<"1">>, <<"2">>, <<"3">>, <<"2", "x">>, <<"-", "1">> }

Digits == <<"0", "1", "2", "3", "4", "5", "6", "7", "8", "9">>

IsDigit(c) == \E i \in 1..Len(Digits) : Digits[i] = c

DigitValue(c) == (CHOOSE i \in 1..Len(Digits) : Digits[i] = c) - 1

RECURSIVE digitPrefix(_)
digitPrefix(s) ==
    IF Len(s) = 0 \/ ~IsDigit(s[1]) THEN <<>> ELSE <<s[1]>> \o digitPrefix(Tail(s))

RECURSIVE decimalValue(_)
decimalValue(ds) ==
    IF Len(ds) = 0 THEN 0
    ELSE 10 * decimalValue(SubSeq(ds, 1, Len(ds) - 1)) + DigitValue(ds[Len(ds)])

\* parseInt(s, 10): leading white space and one sign are skipped, the
\* longest prefix of digits is read, what follows is ignored; NaN without
\* a digit.
parseInt(s) ==
    LET t == trimStart(s)
        signed == Len(t) > 0 /\ t[1] \in {"+", "-"}
        ds == digitPrefix(IF signed THEN Tail(t) ELSE t)
    IN  IF Len(ds) = 0 THEN [nan |-> TRUE, value |-> 0]
        ELSE [nan |-> FALSE,
              value |-> IF signed /\ t[1] = "-" THEN 0 - decimalValue(ds)
                        ELSE decimalValue(ds)]

\* !isNaN(level) && [0, 1, 2].includes(level)
isValidLevel(level) == ~level.nan /\ level.value \in {0, 1, 2}

ValidationCommands ==
    {T_validatecsv, T_validatecsv_filenames, T_validatecsv_headers}

KnownCommands == ValidationCommands \cup {T_check_deploy_config}

NoModel == [definitions |-> <<>>]

HeaderIdle ==
    /\ file = [readable |-> FALSE, content |-> <<>>]
    /\ hpc = "idle"
    /\ result = NoResult

InitCli ==
    /\ args \in SeqsUpTo(ArgPool, MaxArgs)
    /\ argi = 1
    /\ traceLevel = 1
    /\ command = <<>>
    /\ showHelp = FALSE
    /\ cliPc = "parse"
    /\ exitCode = 0
    /\ invoked = NotInvoked
    /\ toolErrors = 0
    /\ csn = NoModel
    /\ RunIdle
    /\ HeaderIdle
    /\ TwiceIdle
    /\ InsertsIdle
    /\ ParseIdle

exit(code) == cliPc' = "exited" /\ exitCode' = code

\* One iteration of the argument loop.
ParseArgument ==
    /\ cliPc = "parse"
    /\ argi <= Len(args)
    /\ LET arg == args[argi]
       IN  IF arg = T_tracelevel
           THEN IF argi + 1 <= Len(args)
                THEN LET level == parseInt(args[argi + 1])
                     IN  IF isValidLevel(level)
                         THEN /\ traceLevel' = level.value
                              /\ argi' = argi + 2
                              /\ UNCHANGED <<command, showHelp, cliPc, exitCode>>
                         ELSE /\ exit(1)
                              /\ UNCHANGED <<traceLevel, argi, command, showHelp>>
                ELSE /\ exit(1)
                     /\ UNCHANGED <<traceLevel, argi, command, showHelp>>
           ELSE IF arg = T_help
           THEN /\ showHelp' = TRUE
                /\ argi' = argi + 1
                /\ UNCHANGED <<traceLevel, command, cliPc, exitCode>>
           ELSE IF ~StartsWith(arg, <<"-">>)
           THEN /\ command' = arg
                /\ argi' = argi + 1
                /\ UNCHANGED <<traceLevel, showHelp, cliPc, exitCode>>
           ELSE /\ argi' = argi + 1
                /\ UNCHANGED <<traceLevel, command, showHelp, cliPc, exitCode>>
    /\ UNCHANGED <<csn, runVars, headerVars, previous, insertVars, parseVars, args, invoked, toolErrors>>

\* After the loop: the help text ends the process, anything else goes on.
ParseDone ==
    /\ cliPc = "parse"
    /\ argi > Len(args)
    /\ IF showHelp THEN exit(0) ELSE cliPc' = "dispatch" /\ exitCode' = exitCode
    /\ UNCHANGED <<csn, traceLevel, runVars, headerVars, previous, insertVars, parseVars, args, argi,
                   command, showHelp, invoked, toolErrors>>

\* switch (command) inside the try block
DispatchCommand ==
    /\ cliPc = "dispatch"
    /\ command # <<>>
    /\ IF command \in KnownCommands
       THEN /\ invoked' = [called |-> TRUE, tool |-> command, traceLevel |-> traceLevel]
            /\ cliPc' = "tool"
            /\ exitCode' = exitCode
       ELSE /\ exit(1)
            /\ invoked' = invoked
    /\ UNCHANGED <<csn, traceLevel, runVars, headerVars, previous, insertVars, parseVars, args, argi,
                   command, showHelp, toolErrors>>

\* Without a command the tool is picked from the prompts.
InteractiveMode ==
    /\ cliPc = "dispatch"
    /\ command = <<>>
    /\ \E tool \in KnownCommands :
          invoked' = [called |-> TRUE, tool |-> tool, traceLevel |-> traceLevel]
    /\ cliPc' = "tool"
    /\ UNCHANGED <<csn, traceLevel, runVars, headerVars, previous, insertVars, parseVars, args, argi,
                   command, showHelp, exitCode, toolErrors>>

\* The awaited tool resolves; a validation has counted some errors. The
\* count is not returned, and the program runs to its end.
ToolReturns ==
    /\ cliPc = "tool"
    /\ \E n \in 0..MaxFiles :
          /\ invoked.tool \notin ValidationCommands => n = 0
          /\ toolErrors' = n
    /\ cliPc' = "exited"
    /\ UNCHANGED <<csn, traceLevel, runVars, headerVars, previous, insertVars, parseVars, args, argi,
                   command, showHelp, exitCode, invoked>>

\* The awaited tool rejects: the catch block of the command branch exits
\* with 1, the one of interactive mode only prints the error.
ToolThrows ==
    /\ cliPc = "tool"
    /\ IF command # <<>> THEN exit(1) ELSE exit(exitCode)
    /\ UNCHANGED <<csn, traceLevel, runVars, headerVars, previous, insertVars, parseVars, args, argi,
                   command, showHelp, invoked, toolErrors>>

NextCli ==
    \/ ParseArgument
    \/ ParseDone
    \/ DispatchCommand
    \/ InteractiveMode
    \/ ToolReturns
    \/ ToolThrows

SpecCli == InitCli /\ [][NextCli]_vars

(***************************************************************************)
(* generateInserts: the versioned output directory.                        *)
(***************************************************************************)
MaxEntries == 2
MaxRuns == 3

Directory(n) == [name |-> n, isDirectory |-> TRUE]

RegularFile(n) == [name |-> n, isDirectory |-> FALSE]

EntryPool ==
    { Directory(<<"v", "1">>),
      Directory(<<"v", "2">>),
      Directory(<<"v", "1", "0">>),
      Directory(<<"v", "0", "2">>),
      Directory(<<"o", "l", "d">>),
      RegularFile(<<"v", "3">>),
      RegularFile(<<"v", "2", ".", "s", "q", "l">>) }

\* /^v\d+$/.test(f)
isVersionName(f) ==
    /\ Len(f) >= 2
    /\ f[1] = "v"
    /\ \A i \in 2..Len(f) : IsDigit(f[i])

RECURSIVE toDecimalString(_)
toDecimalString(n) ==
    IF n < 10 THEN <<Digits[n + 1]>>
    ELSE toDecimalString(n \div 10) \o <<Digits[(n % 10) + 1]>>

SetMax(S) == CHOOSE x \in S : \A y \in S : y <= x

\* readdirSync(outputDir).filter(isDirectory && /^v\d+$/)
versionDirs(root) ==
    {e \in root.entries : e.isDirectory /\ isVersionName(e.name)}

\* Variant: the next number is the count of version directories plus one.
getNextVersion_CountDirs(root) ==
    IF ~root.exists THEN <<"v", "1">>
    ELSE <<"v">> \o toDecimalString(Cardinality(versionDirs(root)) + 1)

getNextVersion(root) ==
    IF ~root.exists THEN <<"v", "1">>
    ELSE LET dirs == versionDirs(root)
         IN  IF dirs = {} THEN <<"v", "1">>
             ELSE LET versions == {parseInt(Tail(d.name)).value : d \in dirs}
                  IN  <<"v">> \o toDecimalString(SetMax(versions) + 1)

InsertRoots ==
    { [exists |-> FALSE, entries |-> {}] }
    \cup
    { [exists |-> TRUE, entries |-> es]
        : es \in { x \in SUBSET EntryPool :
                     /\ Cardinality(x) <= MaxEntries
                     /\ \A a, b \in x : a.name = b.name => a = b } }

InitInserts ==
    /\ outputRoot \in InsertRoots
    /\ runs = <<>>
    /\ csn = NoModel
    /\ traceLevel \in TraceLevels
    /\ RunIdle
    /\ HeaderIdle
    /\ TwiceIdle
    /\ CliIdle
    /\ ParseIdle

\* One run of generateInserts that found at least one CSV file. mkdirSync
\* throws when the path exists; the exception leaves the function.
GenerateInserts ==
    /\ Len(runs) < MaxRuns
    /\ LET root == [exists |-> TRUE, entries |-> outputRoot.entries]
           version == getNextVersion(root)
           taken == \E e \in root.entries : e.name = version
       IN  IF taken
           THEN /\ outputRoot' = root
                /\ runs' = Append(runs, [version |-> version, outcome |-> "threw",
                                         before |-> outputRoot.entries])
           ELSE /\ outputRoot' = [root EXCEPT !.entries = @ \cup {Directory(version)}]
                /\ runs' = Append(runs, [version |-> version, outcome |-> "written",
                                         before |-> outputRoot.entries])
    /\ UNCHANGED <<csn, traceLevel, runVars, headerVars, previous, cliVars, parseVars>>

NextInserts == GenerateInserts

SpecInserts == InitInserts /\ [][NextInserts]_vars

(***************************************************************************)
(* parseCSVLine                                                            *)
(***************************************************************************)
MaxLine == 5

LineChars == {"a", ",", ";", "\""}

Lines == UNION { [1..n -> LineChars] : n \in 0..MaxLine }

\* Variant: a delimiter ends the field inside quotes too.
parseStep_SplitInsideQuotes(st, text, delim) ==
    LET char == text[st.i]
    IN  IF char = "\""
        THEN IF st.inQuotes /\ st.i + 1 <= Len(text) /\ text[st.i + 1] = "\""
             THEN [st EXCEPT !.current = @ \o <<"\"">>, !.i = @ + 2]
             ELSE [st EXCEPT !.inQuotes = ~@, !.i = @ + 1]
        ELSE IF char = delim
        THEN [st EXCEPT !.result = Append(@, st.current), !.current = <<>>, !.i = @ + 1]
        ELSE [st EXCEPT !.current = @ \o <<char>>, !.i = @ + 1]

\* One iteration of the character loop, the increment of i included.
parseStep(st, text, delim) ==
    LET char == text[st.i]
    IN  IF char = "\""
        THEN IF st.inQuotes /\ st.i + 1 <= Len(text) /\ text[st.i + 1] = "\""
             THEN [st EXCEPT !.current = @ \o <<"\"">>, !.i = @ + 2]
             ELSE [st EXCEPT !.inQuotes = ~@, !.i = @ + 1]
        ELSE IF char = delim /\ ~st.inQuotes
        THEN [st EXCEPT !.result = Append(@, st.current), !.current = <<>>, !.i = @ + 1]
        ELSE [st EXCEPT !.current = @ \o <<char>>, !.i = @ + 1]

RECURSIVE parseLoop(_, _, _)
parseLoop(st, text, delim) ==
    IF st.i > Len(text) THEN Append(st.result, st.current)
    ELSE parseLoop(parseStep(st, text, delim), text, delim)

parseCSVLine(text, delim) ==
    parseLoop([i |-> 1, current |-> <<>>, inQuotes |-> FALSE, result |-> <<>>],
              text, delim)

InitParse ==
    /\ line \in Lines
    /\ delimiter \in {",", ";"}
    /\ fields = <<>>
    /\ csvText = <<>>
    /\ inserts = NoInserts
    /\ ppc = "start"
    /\ csn = NoModel
    /\ traceLevel = 1
    /\ RunIdle
    /\ HeaderIdle
    /\ TwiceIdle
    /\ CliIdle
    /\ InsertsIdle

ParseLine ==
    /\ ppc = "start"
    /\ fields' = parseCSVLine(line, delimiter)
    /\ ppc' = "done"
    /\ UNCHANGED <<csn, traceLevel, runVars, headerVars, previous, cliVars, insertVars,
                   line, delimiter, csvText, inserts>>

NextParse == ParseLine

SpecParse == InitParse /\ [][NextParse]_vars

(***************************************************************************)
(* createPostgresInserts                                                   *)
(***************************************************************************)
MaxLines == 3

CsvLinePool ==
    { <<"I", "D", ",", "n", "a", "m", "e">>,
      <<"1">>,
      <<"1", ",", "a">>,
      <<"1", ",", "a", ",", "b">>,
      <<"\"", "x", ",", "y", "\"", ",", "N", "U", "L", "L">>,
      <<" ", " ">>,
      <<"I", "D", ";", "n", "a", "m", "e">>,
      <<"1", ";", "i", "t", "'", "s">> }

CsvTexts == { join(ls, <<"\n">>) : ls \in SeqsUpTo(CsvLinePool, MaxLines) }

ToUpperTable ==
    [c \in {LowerChars[i] : i \in 1..26} |->
        UpperChars[CHOOSE i \in 1..26 : LowerChars[i] = c]]

toUpperCase(s) ==
    [i \in 1..Len(s) |-> IF s[i] \in DOMAIN ToUpperTable THEN ToUpperTable[s[i]] ELSE s[i]]

\* content.split(/\r?\n/).filter((line) => line.trim() !== "")
nonBlankLines(text) ==
    LET raw == split(text, "\n")
        cut == [i \in 1..Len(raw) |->
                  IF Len(raw[i]) > 0 /\ raw[i][Len(raw[i])] = "\r"
                  THEN SubSeq(raw[i], 1, Len(raw[i]) - 1)
                  ELSE raw[i]]
    IN  SelectSeq(cut, LAMBDA l : trim(l) # <<>>)

\* v.replace(/'/g, "''")
escapeSingleQuotes(v) ==
    flatten([i \in 1..Len(v) |-> IF v[i] = "'" THEN <<"'", "'">> ELSE <<v[i]>>])

\* The SQL text of one cell.
sqlValue(val) ==
    LET v == trim(val)
    IN  IF v = <<>> \/ toUpperCase(v) = <<"N", "U", "L", "L">>
        THEN <<"N", "U", "L", "L">>
        ELSE <<"'">> \o escapeSingleQuotes(v) \o <<"'">>

\* The values of one data line: parsed, padded with empty cells up to the
\* number of header columns, each turned into SQL text.
rowValues(text, delim, width) ==
    LET rawValues == parseCSVLine(text, delim)
        padded == IF Len(rawValues) < width
                  THEN rawValues \o [k \in 1..(width - Len(rawValues)) |-> <<>>]
                  ELSE rawValues
    IN  [i \in 1..Len(padded) |-> sqlValue(padded[i])]

\* headers and rows are the column list and the VALUES tuples of the
\* statement; sql is FALSE when the function returns the empty string.
createPostgresInserts(fileName, text) ==
    LET tableName == toLowerCase(replaceAll(
                         IF endsWith(fileName, S_dotCsv)
                         THEN SubSeq(fileName, 1, Len(fileName) - 4)
                         ELSE fileName, "-", "_"))
        lines == nonBlankLines(text)
    IN  IF Len(lines) = 0 THEN NoInserts
        ELSE LET firstLine == lines[1]
                 delim == IF includesChar(firstLine, ";") THEN ";" ELSE ","
                 rawHeaders == parseCSVLine(firstLine, delim)
                 headers == [i \in 1..Len(rawHeaders) |-> toLowerCase(trim(rawHeaders[i]))]
                 values == [i \in 1..(Len(lines) - 1) |->
                              rowValues(lines[i + 1], delim, Len(headers))]
             IN  IF Len(values) = 0 THEN NoInserts
                 ELSE [sql |-> TRUE, tableName |-> tableName,
                       headers |-> headers, rows |-> values]

InitPostgres ==
    /\ csvText \in CsvTexts
    /\ inserts = NoInserts
    /\ ppc = "start"
    /\ line = <<>>
    /\ delimiter = ","
    /\ fields = <<>>
    /\ csn = NoModel
    /\ traceLevel = 1
    /\ RunIdle
    /\ HeaderIdle
    /\ TwiceIdle
    /\ CliIdle
    /\ InsertsIdle

CreateInserts ==
    /\ ppc = "start"
    /\ inserts' = createPostgresInserts(F_exact, csvText)
    /\ ppc' = "done"
    /\ UNCHANGED <<csn, traceLevel, runVars, headerVars, previous, cliVars, insertVars,
                   line, delimiter, fields, csvText>>

NextPostgres == CreateInserts

SpecPostgres == InitPostgres /\ [][NextPostgres]_vars

(***************************************************************************)
(* Properties of header reconciliation.                                    *)
(***************************************************************************)
\* C1: validateHeaderRow returns hasErrors = TRUE exactly when there is an
\* extra column or a missing key column; missing non-key columns alone
\* never set hasErrors.
C1_HasErrorsIff ==
    hpc = "done" =>
        /\ result.hasErrors <=> (result.extra # <<>> \/ result.missingKeys # <<>>)
        /\ (result.extra = <<>> /\ result.missingKeys = <<>> /\ result.missingNonKeys # <<>>)
              => ~result.hasErrors

C1_Witness ==
    /\ hpc = "done"
    /\ result.missingKeys # <<>>
    /\ result.extra = <<>>
    /\ result.missingNonKeys # <<>>
    /\ result.hasErrors

IsScalarKey(el) == ~IsAssocType(el) /\ el.key

IsToOne(el) == IsAssocType(el) /\ el.cardMax # "*"

\* The composite foreign-key columns of a to-one association whose target resolves.
ForeignKeyColumns(el) ==
    IF el.type = "cds.Association" /\ el.cardMax # "*" /\ ~el.virtual /\ ~el.skip
       /\ el.target \in DOMAIN csn.definitions
    THEN { el.name \o <<"_">> \o k.name :
             k \in { t \in Range(csn.definitions[el.target].elements) : t.key } }
    ELSE {}

\* C3: missingKeys is exactly the set of missing expected columns that come
\* from a scalar key field of the entity, a key field whose own name
\* contains an underscore included.
C3_MissingKeysAreScalarKeys ==
    hpc = "done" =>
        Range(result.missingKeys) =
            { e \in Range(result.missing) :
                \E el \in Range(Def.elements) : el.name = e /\ IsScalarKey(el) }

\* C4: a composite foreign-key column derived from a to-one association and
\* missing from the header is never a missing key column and is a missing
\* non-key column; when nothing else is wrong the file has no error.
C4_ForeignKeyNeverMissingKey ==
    hpc = "done" =>
        /\ \A el \in Range(Def.elements) : \A c \in ForeignKeyColumns(el) :
              ~includes(result.headers, c) =>
                  /\ ~includes(result.missingKeys, c)
                  /\ includes(result.missingNonKeys, c)
        /\ ( /\ result.extra = <<>>
             /\ \A c \in Range(result.missing) :
                   \E el \in Range(Def.elements) : c \in ForeignKeyColumns(el) )
           => ~result.hasErrors

C4_Witness ==
    /\ hpc = "done"
    /\ \E el \in Range(Def.elements) :
          /\ S_customer_ID \in ForeignKeyColumns(el)
          /\ csn.definitions[el.target].elements[1].key
    /\ includes(result.missingNonKeys, S_customer_ID)
    /\ result.missing = <<S_customer_ID>>
    /\ ~result.hasErrors

\* C5: the managed columns createdAt, createdBy, modifiedAt, modifiedBy are
\* never reported as missing and never reported as extra, whether or not the
\* header contains them and whether or not the entity declares them.
C5_ManagedNeverReported ==
    hpc = "done" =>
        \A m \in Range(managedFields) :
            /\ ~includes(result.missing, m)
            /\ ~includes(result.missingKeys, m)
            /\ ~includes(result.missingNonKeys, m)
            /\ ~includes(result.extra, m)

C5_Witness ==
    /\ hpc = "done"
    /\ includes(result.headers, S_createdAt)
    /\ ~HasElement(Def, S_createdAt)
    /\ Len(Def.elements) > 0
    /\ result.extra = <<>>

\* C6: header comparison is case-insensitive: an expected column that
\* differs from a header only in letter case is not reported as missing,
\* and key field ID with scalar field status against header id,status
\* yields no error and no warning.
C6_CaseInsensitiveHeaders ==
    hpc = "done" =>
        /\ \A e \in Range(result.expected) :
              (\E h \in Range(result.headers) : toLowerCase(h) = toLowerCase(e))
                  => ~includes(result.missing, e)
        /\ ( /\ Def.elements = <<Scalar(S_ID, TRUE), Scalar(S_status, FALSE)>>
             /\ result.headers = <<S_id, S_status>> )
           => (~result.hasErrors /\ ~result.hasWarnings)

\* C7: every header {base}_{suffix} whose base is the name of a to-one
\* association or composition of the entity is tolerated (not extra), also
\* when the field name itself contains an underscore.
C7_ForeignKeyPatternTolerated ==
    hpc = "done" =>
        \A h \in Range(result.headers) : \A el \in Range(Def.elements) :
            (IsToOne(el) /\ StartsWith(h, el.name \o <<"_">>) /\ Len(h) > Len(el.name) + 1)
                => ~includes(result.extra, h)

\* C8: the case-insensitive tolerance for extra columns applies to scalar
\* fields only: a header that is not expected and equals, under any casing,
\* the name of an association, composition, virtual or skip-annotated field
\* is reported as extra.
C8_CaseToleranceScalarOnly ==
    hpc = "done" =>
        \A h \in Range(result.headers) : \A el \in Range(Def.elements) :
            ( /\ toLowerCase(h) = toLowerCase(el.name)
              /\ (IsAssocType(el) \/ el.virtual \/ el.skip)
              /\ ~includes(result.expected, h)
              /\ ~includes(managedFields, h)
              /\ ~(includesChar(h, "_") /\ isForeignKeyHeader(Def, h)) )
                => includes(result.extra, h)

\* The header's part before its first "_" names an association or
\* composition of the entity whose cardinality max is "*".
HasToManyBase(h) ==
    /\ includesChar(h, "_")
    /\ \E el \in Range(Def.elements) :
          el.name = split(h, "_")[1] /\ IsAssocType(el) /\ el.cardMax = "*"

\* C9 as stated: a header {base}_{suffix} whose base names an association or
\* composition with cardinality max "*" is always reported as extra.
C9_ToManyAlwaysExtra ==
    hpc = "done" =>
        \A h \in Range(result.headers) : HasToManyBase(h) => includes(result.extra, h)

\* C9 amended: such a header is reported as extra unless it is itself an
\* expected column or equals, ignoring case, the name of a field of the entity.
C9_ToManyExtraUnlessNamed ==
    hpc = "done" =>
        \A h \in Range(result.headers) :
            HasToManyBase(h) =>
                (includes(result.extra, h) <=>
                    ~( \/ includes(result.expected, h)
                       \/ \E el \in Range(Def.elements) :
                             toLowerCase(el.name) = toLowerCase(h) ))

C9_Witness ==
    /\ hpc = "done"
    /\ HasToManyBase(S_order_id)
    /\ includes(result.headers, S_order_id)
    /\ ~HasElement(Def, S_order_id)
    /\ includes(result.extra, S_order_id)

(***************************************************************************)
(* Properties of a validatecsv run.                                        *)
(***************************************************************************)
HeaderResultAt(finding, level) ==
    validateHeaderRow(FileAt(disk, finding.file), finding.entity, csn, level)

\* C2: the trace level gates rendering only: for the same model and files
\* the error and warning counts of filename validation and of header
\* validation, and every file's hasErrors and hasWarnings, are the same at
\* trace levels 0, 1 and 2.
C2_CountsIndependentOfTraceLevel ==
    pc = "done" =>
        \A level \in TraceLevels :
            /\ \A i \in 1..Len(findings) :
                  /\ findings[i].result.hasErrors = HeaderResultAt(findings[i], level).hasErrors
                  /\ findings[i].result.hasWarnings = HeaderResultAt(findings[i], level).hasWarnings
            /\ hErrors = Cardinality({i \in 1..Len(findings) :
                                        HeaderResultAt(findings[i], level).hasErrors})
            /\ hWarnings = Cardinality({i \in 1..Len(findings) :
                                          HeaderResultAt(findings[i], level).hasWarnings})
            /\ fErrors = Cardinality({i \in 1..Len(diskFiles) :
                  classifyFile(diskFiles[i], entityLookup) \in {"not-found", "entity-case"}})
            /\ fWarnings = Cardinality({i \in 1..Len(diskFiles) :
                  classifyFile(diskFiles[i], entityLookup) \in {"function-like", "filename-case"}})

\* The base name of the file, hyphens translated to dots, matches no indexed
\* entity under case-insensitive comparison.
MatchesNoEntity(diskFile) ==
    \A i \in 1..Len(entities) :
        toLowerCase(entities[i]) # toLowerCase(entityNameFromFile(diskFile))

HasNoDot(diskFile) == ~includesChar(stripCsvExtension(diskFile.actualName), ".")

NeverReconciled(diskFile) ==
    \A i \in 1..Len(findings) : findings[i].file # diskFile

\* C10 as stated: every discovered file whose base name matches no indexed
\* entity adds exactly one error at every trace level and is never passed to
\* header reconciliation.
C10_UnmatchedFileIsOneError ==
    /\ [][ (pc = "fn_files" /\ MatchesNoEntity(diskFiles[idx]))
             => /\ fErrors' = fErrors + 1
                /\ fWarnings' = fWarnings
                /\ out' = Append(out, Rec("ENTITY NOT FOUND", diskFiles[idx].actualName)) ]_vars
    /\ [](\A i \in 1..Len(diskFiles) :
             (pc \in {"hd_entities", "done"} /\ MatchesNoEntity(diskFiles[i]))
                 => NeverReconciled(diskFiles[i]))

\* C10 amended: every discovered file whose base name contains no dot and
\* matches no indexed entity adds exactly one error at every trace level and
\* is never passed to header reconciliation.
C10_UnmatchedPlainFileIsOneError ==
    /\ [][ (pc = "fn_files" /\ HasNoDot(diskFiles[idx]) /\ MatchesNoEntity(diskFiles[idx]))
             => /\ fErrors' = fErrors + 1
                /\ fWarnings' = fWarnings
                /\ out' = Append(out, Rec("ENTITY NOT FOUND", diskFiles[idx].actualName)) ]_vars
    /\ [](\A i \in 1..Len(diskFiles) :
             (pc \in {"hd_entities", "done"} /\ HasNoDot(diskFiles[i])
                /\ MatchesNoEntity(diskFiles[i]))
                 => NeverReconciled(diskFiles[i]))

C10_Witness ==
    /\ pc = "done"
    /\ Len(diskFiles) = 2
    /\ diskFiles[1].actualName = F_exact
    /\ diskFiles[2].actualName = F_noNamespace
    /\ entities = <<S_Order>>
    /\ MatchesNoEntity(diskFiles[2])
    /\ fErrors = 1
    /\ fWarnings = 0
    /\ Len(findings) = 1
    /\ NeverReconciled(diskFiles[2])

(***************************************************************************)
(* Filename validation: the branches of the file loop.                     *)
(***************************************************************************)
CurrentFile == diskFiles[idx]

TranslatedBaseName(diskFile) ==
    replaceAll(stripCsvExtension(diskFile.actualName), "-", ".")

MatchesEntityIgnoringCase(diskFile) ==
    toLowerCase(TranslatedBaseName(diskFile)) \in DOMAIN entityLookup

CanonicalEntityName(diskFile) ==
    entityLookup[toLowerCase(TranslatedBaseName(diskFile))]

DiffersOnlyInCase(a, b) == a # b /\ toLowerCase(a) = toLowerCase(b)

CountsOfFileStep(e, w) == fErrors' = fErrors + e /\ fWarnings' = fWarnings + w

CaseOutcome(diskFile) ==
    LET canonical == CanonicalEntityName(diskFile)
    IN  IF TranslatedBaseName(diskFile) # canonical
        THEN CountsOfFileStep(1, 0)
        ELSE IF DiffersOnlyInCase(diskFile.actualName, strictNameOf(canonical))
        THEN CountsOfFileStep(0, 1)
        ELSE CountsOfFileStep(0, 0)

\* C11 (as stated): a file that matches an entity when case is ignored counts
\* one error if its translated base name differs from the entity name, one
\* warning if only the filename's case differs from the strict filename, and
\* nothing otherwise.
C11_CaseOutcomes ==
    [][(pc = "fn_files" /\ MatchesEntityIgnoringCase(CurrentFile))
         => CaseOutcome(CurrentFile)]_vars

\* C11 (amended): the same three outcomes, for a matching file whose base
\* name contains no dot.
C11_CaseOutcomesOfPlainFiles ==
    [][(pc = "fn_files" /\ MatchesEntityIgnoringCase(CurrentFile)
          /\ HasNoDot(CurrentFile))
         => CaseOutcome(CurrentFile)]_vars

\* Both case findings in one run: sales-order.csv against sales.Order is an
\* error, sales-Order.CSV against sales.Order a warning.
C11_Witness ==
    /\ pc = "fn_entities"
    /\ entities = <<S_Order>>
    /\ {diskFiles[i].actualName : i \in 1..Len(diskFiles)} = {F_lower, F_upperExt}
    /\ fErrors = 1
    /\ fWarnings = 1

\* C12: a discovered file whose base name contains a dot adds exactly one
\* warning and no error, and what is printed for it is the function-like
\* note alone, whether or not its name matches an entity.
C12_FunctionLikeIsOneWarning ==
    [][(pc = "fn_files" /\ ~HasNoDot(CurrentFile))
         => /\ CountsOfFileStep(0, 1)
            /\ out' = out \o (IF traceLevel >= 1
                              THEN <<Rec("FUNCTION/ACTION CSV", CurrentFile.actualName)>>
                              ELSE <<>>)]_vars

\* sales.Order.csv beside the entity sales.Order: one warning, no error.
C12_Witness ==
    /\ pc = "fn_entities"
    /\ entities = <<S_Order>>
    /\ {diskFiles[i].actualName : i \in 1..Len(diskFiles)} = {F_dotted}
    /\ fErrors = 0
    /\ fWarnings = 1

(***************************************************************************)
(* Filename validation: entities without a file.                           *)
(***************************************************************************)
IndexedEntities ==
    { n \in DOMAIN csn.definitions :
        /\ csn.definitions[n].kind = "entity"
        /\ ~StartsWith(n, S_sapCommon)
        /\ ~csn.definitions[n].skip }

\* A file with exactly the strict filename of the entity lies in a data folder.
HasStrictFile(entityName) ==
    \E i \in 1..Len(dataFolders) :
        \E j \in 1..Len(disk[dataFolders[i]].files) :
            disk[dataFolders[i]].files[j].name = strictNameOf(entityName)

NoCsvCount(entityName) ==
    Cardinality({i \in 1..Len(out) : out[i] = Rec("NO CSV", entityName)})

NoCsvRecordsAsClaimed ==
    \A e \in IndexedEntities :
        NoCsvCount(e) = IF ~HasStrictFile(e) /\ traceLevel = 2 THEN 1 ELSE 0

FilenameErrorKinds == {"ENTITY NOT FOUND", "ENTITY CASE ERROR"}

HeaderErrorKinds ==
    {"HEADER ERROR: Extra Columns", "HEADER ERROR: Missing Key Columns"}

WarningKinds == {"CASE MISMATCH", "FUNCTION/ACTION CSV", "HEADER WARNING"}

InformationKinds == {"FILENAME OK", "HEADER OK", "NO CSV"}

Printed(kind, subject) == \E i \in 1..Len(out) : out[i] = Rec(kind, subject)

CountOfKinds(kinds) == Cardinality({i \in 1..Len(out) : out[i].kind \in kinds})

\* C14: every counted error has its record at every trace level, a warning
\* record appears only at level 1 or higher, a success or informational
\* record only at level 2 or higher, and HEADER OK is printed only for a
\* file without extra, missing key or missing non-key columns.
C14_RenderingLevels ==
    /\ \A i \in 1..Len(out) :
          /\ out[i].kind \in WarningKinds => traceLevel >= 1
          /\ out[i].kind \in InformationKinds => traceLevel >= 2
    /\ pc # "fn_start" => CountOfKinds(FilenameErrorKinds) = fErrors
    /\ \A i \in 1..Len(findings) :
          LET res == findings[i].result
              entityName == findings[i].entity
          IN  /\ res.extra # <<>>
                   <=> Printed("HEADER ERROR: Extra Columns", entityName)
              /\ res.missingKeys # <<>>
                   <=> Printed("HEADER ERROR: Missing Key Columns", entityName)
              /\ Printed("HEADER OK", entityName)
                   => /\ res.extra = <<>>
                      /\ res.missingKeys = <<>>
                      /\ res.missingNonKeys = <<>>

\* One finished run at level 2 that printed an error, a warning and HEADER OK.
C14_Witness ==
    /\ pc = "done"
    /\ traceLevel = 2
    /\ CountOfKinds(FilenameErrorKinds \cup HeaderErrorKinds) > 0
    /\ CountOfKinds(WarningKinds) > 0
    /\ CountOfKinds({"HEADER OK"}) > 0

(***************************************************************************)
(* The entity index and the order of processing.                           *)
(***************************************************************************)
IndexIsBuilt ==
    \/ pc \in {"fn_files", "fn_entities", "hd_entities"}
    \/ pc \in {"hd_start", "done"} /\ diskFiles # <<>>

EntityRecordKinds == HeaderErrorKinds \cup {"HEADER WARNING", "HEADER OK", "NO CSV"}

SummaryKinds == {"Findings", "Perfect match", "Perfect"}

\* C19: a run that has ended has printed the summary of filename validation
\* and the summary of header validation.
C19_EveryRunReachesSummaries ==
    pc \in {"done", "crashed"} => CountOfKinds(SummaryKinds) = 2

\* C20: a matched file that cannot be read adds no missing-key error, no
\* missing-non-key warning and no extra-column error.
C20_UnreadableFileContributesNothing ==
    \A i \in 1..Len(findings) :
        ~FileAt(disk, findings[i].file).readable
          => /\ ~findings[i].result.hasErrors
             /\ ~findings[i].result.hasWarnings
             /\ findings[i].result.missingKeys = <<>>
             /\ findings[i].result.missingNonKeys = <<>>
             /\ findings[i].result.extra = <<>>

(***************************************************************************)
(* Expected-column derivation.                                             *)
(***************************************************************************)
IsExcludedField(el) ==
    \/ el.virtual
    \/ el.skip
    \/ el.name \in Range(managedFields)
    \/ el.type = "cds.Composition"
    \/ el.type = "cds.Association" /\ el.cardMax = "*"

IsContributingToOne(el) == el.type = "cds.Association" /\ ~IsExcludedField(el)

TargetResolves(el) == el.target \in DOMAIN csn.definitions

KeyColumnsOf(el) ==
    { el.name \o <<"_">> \o k.name :
        k \in { t \in Range(csn.definitions[el.target].elements) : t.key } }

\* The columns a field is entitled to contribute.
ContributedBy(el) ==
    IF IsExcludedField(el) THEN {}
    ELSE IF el.type = "cds.Association"
    THEN IF TargetResolves(el) THEN KeyColumnsOf(el) ELSE {}
    ELSE {el.name}

ContributedByOthers(el) ==
    UNION { ContributedBy(other) : other \in Range(Def.elements) \ {el} }

CountIn(arr, x) == Cardinality({i \in 1..Len(arr) : arr[i] = x})

\* C15: a virtual, skip-annotated or managed field, a composition of any
\* cardinality and a to-many association contribute no expected column: the
\* expected columns are exactly those of the remaining fields, and the name
\* of such a field is not reported missing unless another field contributes
\* a column of that name.
C15_ExcludedFieldsContributeNothing ==
    hpc = "done" =>
        /\ Range(result.expected) = UNION { ContributedBy(el) : el \in Range(Def.elements) }
        /\ \A el \in Range(Def.elements) :
              (IsExcludedField(el) /\ el.name \notin ContributedByOthers(el))
                => /\ ~includes(result.expected, el.name)
                   /\ ~includes(result.missing, el.name)

\* A virtual field and a to-one composition, neither in the header: nothing
\* is expected and nothing is missing.
C15_Witness ==
    /\ hpc = "done"
    /\ Len(Def.elements) = 2
    /\ \E el \in Range(Def.elements) : el.virtual
    /\ \E el \in Range(Def.elements) : el.type = "cds.Composition" /\ el.cardMax = "none"
    /\ result.headers = <<>>
    /\ result.expected = <<>>
    /\ result.missing = <<>>

\* C16: a to-one association whose target resolves contributes exactly one
\* expected column field_key per key field of the target and no column named
\* after itself; one whose target does not resolve contributes no column,
\* and the reconciliation still returns its result.
C16_ToOneAssociationColumns ==
    hpc = "done" =>
        /\ result.defined
        /\ \A el \in Range(Def.elements) :
              IsContributingToOne(el) =>
                 LET own == IF TargetResolves(el) THEN KeyColumnsOf(el) ELSE {}
                     prefixed == { c \in Range(result.expected) :
                                     StartsWith(c, el.name \o <<"_">>) }
                 IN  /\ ~includes(result.expected, el.name)
                     /\ prefixed \subseteq own \cup ContributedByOthers(el)
                     /\ \A c \in own :
                           CountIn(result.expected, c)
                             = 1 + CountIn([i \in 1..Len(Def.elements) |->
                                              Def.elements[i] # el
                                                /\ c \in ContributedBy(Def.elements[i])],
                                           TRUE)

\* An association whose target has the two keys ID and name: two columns.
C16_Witness ==
    /\ hpc = "done"
    /\ \E el \in Range(Def.elements) : IsContributingToOne(el) /\ el.target = S_Line
    /\ result.expected = <<S_customer_ID, S_customer_name>>

\* C17: the expected columns follow the declaration order of the fields and
\* no column name occurs twice.
C17_ExpectedOrderedWithoutDuplicates ==
    hpc = "done" =>
        /\ \A c \in Range(result.expected) : CountIn(result.expected, c) = 1
        /\ \A i, j \in 1..Len(result.expected) :
              i < j => \E a, b \in 1..Len(Def.elements) :
                          /\ a <= b
                          /\ result.expected[i] \in ContributedBy(Def.elements[a])
                          /\ result.expected[j] \in ContributedBy(Def.elements[b])

(***************************************************************************)
(* Header validation: counts, summary and the files that are reconciled.   *)
(***************************************************************************)
FindingsWithErrors == {i \in 1..Len(findings) : findings[i].result.hasErrors}

FindingsWithWarnings == {i \in 1..Len(findings) : findings[i].result.hasWarnings}

HeaderSummaryAsClaimed ==
    /\ hErrors = Cardinality(FindingsWithErrors)
    /\ hWarnings = Cardinality(FindingsWithWarnings)
    /\ (hErrors = 0 /\ hWarnings = 0) <=> Printed("Perfect", <<>>)
    /\ ~(hErrors = 0 /\ hWarnings = 0) => out[Len(out)] = Rec("Findings", <<hErrors, hWarnings>>)
    /\ (hErrors = 0 /\ hWarnings = 0) => out[Len(out)] = Rec("Perfect", <<>>)

IsStrictFilenameOfIndexedEntity(diskFile) ==
    \E e \in IndexedEntities : diskFile.actualName = strictNameOf(e)

\* C22: when header validation has ended, every discovered file named
\* exactly like the strict filename of an indexed entity has a finding of
\* its own, also when the name occurs in more than one data folder.
C22_EveryExactFileReconciled ==
    (pc = "done" /\ diskFiles # <<>>) =>
        \A i \in 1..Len(diskFiles) :
            IsStrictFilenameOfIndexedEntity(diskFiles[i])
              => \E j \in 1..Len(findings) : findings[j].file = diskFiles[i]

\* C26: a discovered file named exactly like the strict filename of an
\* indexed entity is classified exact: it adds no error and no warning and
\* only the FILENAME OK note, at trace level 2, is printed for it.
C26_StrictFilenameIsExact ==
    [][(pc = "fn_files" /\ IsStrictFilenameOfIndexedEntity(CurrentFile))
         => /\ CountsOfFileStep(0, 0)
            /\ out' = out \o (IF traceLevel >= 2
                              THEN <<Rec("FILENAME OK", CurrentFile.actualName)>>
                              ELSE <<>>)]_vars

(***************************************************************************)
(* Two runs on the same inputs.                                            *)
(***************************************************************************)
\* C23: a second run of filename and header validation on the same model
\* and the same files ends with the same four counts, the same printed
\* records and the same header findings, in the same order, as the first.
C23_SecondRunIdentical ==
    (previous.ran /\ pc \in {"done", "crashed"}) =>
        /\ pc = previous.pc
        /\ fErrors = previous.fErrors
        /\ fWarnings = previous.fWarnings
        /\ hErrors = previous.hErrors
        /\ hWarnings = previous.hWarnings
        /\ out = previous.out
        /\ findings = previous.findings

\* A second run has ended after a first one that counted filename and
\* header findings.
C23_Witness ==
    /\ previous.ran
    /\ pc = "done"
    /\ previous.fErrors > 0
    /\ previous.fWarnings > 0
    /\ previous.hErrors > 0
    /\ Len(previous.findings) > 0
    /\ Len(out) > 2

(***************************************************************************)
(* The command-line program.                                               *)
(***************************************************************************)
\* C24: when a validation command has finished with an error count greater
\* than zero, the process has ended with a non-zero exit status.
C24_ErrorsGiveNonZeroExit ==
    (cliPc = "exited" /\ command \in ValidationCommands /\ invoked.called
       /\ toolErrors > 0)
      => exitCode # 0

HasTraceLevelFlag == \E i \in 1..Len(args) : args[i] = T_tracelevel

\* A --tracelevel argument that is last or is followed by something other
\* than 0, 1 or 2.
HasBadTraceLevelFlag ==
    \E i \in 1..Len(args) :
        /\ args[i] = T_tracelevel
        /\ i = Len(args) \/ args[i + 1] \notin {<<"0">>, <<"1">>, <<"2">>}

\* C25: a tool is only ever handed trace level 0, 1 or 2, and 1 when
\* --tracelevel is absent; with a --tracelevel argument that lacks a value
\* or has a value other than 0, 1 or 2 no tool is invoked and the process
\* ends with exit status 1.
C25_TraceLevelValidated ==
    /\ invoked.called => invoked.traceLevel \in {0, 1, 2}
    /\ (invoked.called /\ ~HasTraceLevelFlag) => invoked.traceLevel = 1
    /\ HasBadTraceLevelFlag =>
          /\ ~invoked.called
          /\ cliPc = "exited" => exitCode = 1

(***************************************************************************)
(* generateInserts: version directories.                                   *)
(***************************************************************************)
VersionNumber(name) == parseInt(Tail(name)).value

ExistingVersions(entries) ==
    {VersionNumber(e.name) : e \in {x \in entries : x.isDirectory /\ isVersionName(x.name)}}

RunsAsClaimed ==
    /\ \A i \in 1..Len(runs) :
          /\ runs[i].outcome = "written"
          /\ isVersionName(runs[i].version)
          /\ VersionNumber(runs[i].version)
               = IF ExistingVersions(runs[i].before) = {} THEN 1
                 ELSE SetMax(ExistingVersions(runs[i].before)) + 1
          /\ \A e \in runs[i].before : e.name # runs[i].version
          /\ Directory(runs[i].version) \in outputRoot.entries
    /\ \A i, j \in 1..Len(runs) :
          i < j => VersionNumber(runs[i].version) < VersionNumber(runs[j].version)

NoFileNamedLikeVersion ==
    \A e \in outputRoot.entries : isVersionName(e.name) => e.isDirectory

RECURSIVE RolesFrom(_, _, _, _)
RolesFrom(text, delim, i, quoted) ==
    IF i > Len(text) THEN <<>>
    ELSE IF text[i] = "\"" /\ quoted /\ i < Len(text) /\ text[i + 1] = "\""
    THEN <<"literal-quote", "dropped">> \o RolesFrom(text, delim, i + 2, quoted)
    ELSE IF text[i] = "\""
    THEN <<"toggle">> \o RolesFrom(text, delim, i + 1, ~quoted)
    ELSE IF text[i] = delim
    THEN <<IF quoted THEN "quoted-delimiter" ELSE "separator">>
           \o RolesFrom(text, delim, i + 1, quoted)
    ELSE <<"plain">> \o RolesFrom(text, delim, i + 1, quoted)

Roles == RolesFrom(line, delimiter, 1, FALSE)

CountRole(role) == Cardinality({i \in 1..Len(Roles) : Roles[i] = role})

AllFieldChars == flatten(fields)

\* C28: the number of fields is one plus the number of delimiters read
\* outside quotes; the fields hold, in order, every character of the line
\* except the separators, the toggling quotes and the second quote of each
\* doubled quote, so a quoted delimiter stays in its field, a doubled quote
\* inside quotes gives one quote character and no other quote is kept.
C28_SplitsOutsideQuotesOnly ==
    ppc = "done" =>
        /\ Len(fields) = 1 + CountRole("separator")
        /\ CountIn(AllFieldChars, "\"") = CountRole("literal-quote")
        /\ CountIn(AllFieldChars, delimiter) = CountRole("quoted-delimiter")
        /\ AllFieldChars
             = [k \in 1..Len(SelectSeq([i \in 1..Len(line) |-> i],
                                       LAMBDA i : Roles[i] \in {"plain", "quoted-delimiter",
                                                                "literal-quote"})) |->
                  line[SelectSeq([i \in 1..Len(line) |-> i],
                                 LAMBDA i : Roles[i] \in {"plain", "quoted-delimiter",
                                                          "literal-quote"})[k]]]

\* The line "a,a",a parsed with the comma: two fields, the first a,a.
C28_Witness ==
    /\ ppc = "done"
    /\ line = <<"\"", "a", ",", "\"", ",">>
    /\ delimiter = ","
    /\ fields = << <<"a", ",">>, <<>> >>

(***************************************************************************)
(* createPostgresInserts: the width of the VALUES tuples.                  *)
(***************************************************************************)
\* C29: in a produced INSERT statement every VALUES tuple has exactly as
\* many values as the column list has columns.
C29_TupleWidthEqualsHeaderWidth ==
    (ppc = "done" /\ inserts.sql) =>
        \A i \in 1..Len(inserts.rows) : Len(inserts.rows[i]) = Len(inserts.headers)

====
